---- MODULE Spec2Model ----
(***************************************************************************)
(* Model of the text chunker and the speech playback controller of         *)
(* src/src/components/AudioPlayer.tsx (component AudioPlayer).              *)
(*                                                                         *)
(* Strings are modelled as sequences of one-character strings, so that     *)
(* the regular expression, trim and length of the code are computed and    *)
(* not assumed.  The browser's speech engine (window.speechSynthesis) is   *)
(* modelled by its queue, its paused flag and the set of utterances it has *)
(* cancelled but whose events it has not delivered yet.                    *)
(***************************************************************************)
EXTENDS Integers, Sequences, FiniteSets, TLC

\* ------------------------------------------------------------------ bounds

\* longest input text of the chunker specification
MaxLen == 5
\* largest maxLength argument of the chunker specification
MaxChunkLen == 4

\* ----------------------------------------------------------------- strings

\* the characters of the chunker specification's input texts
Alphabet == {"a", "b", " ", ".", "?"}

\* the character class [.!?] of the sentence regular expression
IsTerm(c) == c \in {".", "!", "?"}

\* the white space removed by String.prototype.trim
IsSpace(c) == c \in {" ", "\n", "\t"}

\* first index j >= i of s where s[j] is a terminator; Len(s)+1 when none
NextTerm(s, i) ==
  IF \E j \in i..Len(s) : IsTerm(s[j])
  THEN CHOOSE j \in i..Len(s) : IsTerm(s[j]) /\ \A k \in i..(j - 1) : ~IsTerm(s[k])
  ELSE Len(s) + 1

\* first index j >= i of s where s[j] is no terminator; Len(s)+1 when none
NextNonTerm(s, i) ==
  IF \E j \in i..Len(s) : ~IsTerm(s[j])
  THEN CHOOSE j \in i..Len(s) : ~IsTerm(s[j]) /\ \A k \in i..(j - 1) : IsTerm(s[k])
  ELSE Len(s) + 1

\* text.match(/[^.!?]+[.!?]+/g) scanning from index i: the successive
\* leftmost matches, each a maximal run of non-terminators followed by a
\* maximal run of terminators; <<>> stands for the null of "no match"
RECURSIVE MatchSentences(_, _)
MatchSentences(s, i) ==
  LET b == NextNonTerm(s, i)
      e == NextTerm(s, b)
      f == NextNonTerm(s, e)
  IN  IF b > Len(s) \/ e > Len(s) THEN <<>>
      ELSE <<SubSeq(s, b, f - 1)>> \o MatchSentences(s, f)

\* String.prototype.trim
RECURSIVE TrimLeft(_)
TrimLeft(s) ==
  IF s # <<>> /\ IsSpace(Head(s)) THEN TrimLeft(Tail(s)) ELSE s

RECURSIVE TrimRight(_)
TrimRight(s) ==
  IF s # <<>> /\ IsSpace(s[Len(s)]) THEN TrimRight(SubSeq(s, 1, Len(s) - 1)) ELSE s

Trim(s) == TrimLeft(TrimRight(s))

\* ----------------------------------------------------------------- chunker

\* a plausible slip of chunkText: the fallback "|| [text]" is missing
SentencesNoFallback(text) == MatchSentences(text, 1)

\* const sentences = text.match(/[^.!?]+[.!?]+/g) || [text]
Sentences(text) ==
  LET m == MatchSentences(text, 1) IN IF m = <<>> THEN <<text>> ELSE m

\* a plausible slip of the length test: off by one
ExceedsOffByOne(currentChunk, sentence, maxLength) ==
  Len(currentChunk \o sentence) > maxLength + 1

\* a plausible slip of the length test: >= for >
ExceedsOrEqual(currentChunk, sentence, maxLength) ==
  Len(currentChunk \o sentence) >= maxLength

\* (currentChunk + sentence).length > maxLength
Exceeds(currentChunk, sentence, maxLength) ==
  Len(currentChunk \o sentence) > maxLength

\* a plausible slip of chunkText: the final flush is missing
RECURSIVE ChunkLoopNoFlush(_, _, _, _, _)
ChunkLoopNoFlush(sentences, i, chunks, currentChunk, maxLength) ==
  IF i > Len(sentences)
  THEN chunks
  ELSE LET sentence == sentences[i]
       IN  IF Exceeds(currentChunk, sentence, maxLength)
           THEN ChunkLoopNoFlush(sentences, i + 1,
                                 IF currentChunk # <<>>
                                 THEN Append(chunks, Trim(currentChunk)) ELSE chunks,
                                 sentence, maxLength)
           ELSE ChunkLoopNoFlush(sentences, i + 1, chunks,
                                 currentChunk \o sentence, maxLength)

\* the for loop of chunkText over sentences[i..], with the chunks pushed so
\* far and the running buffer currentChunk, and the final flush
RECURSIVE ChunkLoop(_, _, _, _, _)
ChunkLoop(sentences, i, chunks, currentChunk, maxLength) ==
  IF i > Len(sentences)
  THEN IF currentChunk # <<>> THEN Append(chunks, Trim(currentChunk)) ELSE chunks
  ELSE LET sentence == sentences[i]
       IN  IF Exceeds(currentChunk, sentence, maxLength)
           THEN ChunkLoop(sentences, i + 1,
                          IF currentChunk # <<>>
                          THEN Append(chunks, Trim(currentChunk)) ELSE chunks,
                          sentence, maxLength)
           ELSE ChunkLoop(sentences, i + 1, chunks, currentChunk \o sentence, maxLength)

chunkText(text, maxLength) == ChunkLoop(Sentences(text), 1, <<>>, <<>>, maxLength)

\* ------------------------------------------------------------------ voices

\* String.prototype.startsWith
StartsWith(s, pre) == Len(s) >= Len(pre) /\ SubSeq(s, 1, Len(pre)) = pre

\* String.prototype.includes
Includes(s, sub) ==
  \E i \in 1..(Len(s) - Len(sub) + 1) : SubSeq(s, i, i + Len(sub) - 1) = sub

UpperCase == <<"A","B","C","D","E","F","G","H","I","J","K","L","M",
               "N","O","P","Q","R","S","T","U","V","W","X","Y","Z">>
LowerCase == <<"a","b","c","d","e","f","g","h","i","j","k","l","m",
               "n","o","p","q","r","s","t","u","v","w","x","y","z">>

\* String.prototype.toLowerCase
ToLowerCase(s) ==
  [i \in 1..Len(s) |->
     IF \E k \in 1..Len(UpperCase) : UpperCase[k] = s[i]
     THEN LowerCase[CHOOSE k \in 1..Len(UpperCase) : UpperCase[k] = s[i]]
     ELSE s[i]]

\* null / undefined of a SpeechSynthesisVoice
NoVoice == [name |-> <<>>, lang |-> <<>>]

\* sample SpeechSynthesisVoice objects of the engine
VoiceRavi == [name |-> <<"R","a","v","i">>, lang |-> <<"e","n","-","I","N">>]
VoiceSam  == [name |-> <<"S","a","m","a","n","t","h","a">>, lang |-> <<"e","n","-","U","S">>]
VoiceDan  == [name |-> <<"D","a","n","i","e","l">>, lang |-> <<"e","n","-","G","B">>]
VoiceAnna == [name |-> <<"A","n","n","a">>, lang |-> <<"d","e","-","D","E">>]
VoiceVicky == [name |-> <<"V","i","c","t","o","r","i","a">>, lang |-> <<"d","e","-","D","E">>]

\* the lists getVoices() may return (empty until the engine has loaded them)
VoiceLists == { <<>>, <<VoiceDan, VoiceSam>>, <<VoiceAnna, VoiceRavi>> }

\* voices.filter(v => v.lang.includes('en-IN') || v.lang.includes('en_IN'))
IndianVoices(voices) ==
  SelectSeq(voices, LAMBDA v : \/ Includes(v.lang, <<"e","n","-","I","N">>)
                               \/ Includes(v.lang, <<"e","n","_","I","N">>))

\* voices.filter(v => v.lang.startsWith('en'))
EnglishVoices(voices) == SelectSeq(voices, LAMBDA v : StartsWith(v.lang, <<"e","n">>))

\* the predicate of englishVoices.find(...)
IsFemaleName(v) ==
  LET n == ToLowerCase(v.name)
  IN  \/ Includes(n, <<"f","e","m","a","l","e">>)
      \/ Includes(n, <<"w","o","m","a","n">>)
      \/ Includes(n, <<"s","a","m","a","n","t","h","a">>)
      \/ Includes(n, <<"v","i","c","t","o","r","i","a">>)

\* the elements of an array
Range(seq) == {seq[i] : i \in 1..Len(seq)}

\* Array.prototype.find, the predicate given as the set of the elements that
\* satisfy it; undefined as NoVoice
Find(seq, hits) ==
  IF \E i \in 1..Len(seq) : seq[i] \in hits
  THEN seq[CHOOSE i \in 1..Len(seq) :
             seq[i] \in hits /\ \A j \in 1..(i - 1) : seq[j] \notin hits]
  ELSE NoVoice

\* seq[0], undefined as NoVoice
First(seq) == IF seq = <<>> THEN NoVoice ELSE seq[1]

\* loadVoices: the list passed to setAvailableVoices
AvailableOf(voices) ==
  LET indianVoices == IndianVoices(voices)
      englishVoices == EnglishVoices(voices)
      voiceList == IF Len(indianVoices) > 0 THEN indianVoices ELSE englishVoices
  IN  IF Len(voiceList) > 0 THEN voiceList ELSE voices

\* a plausible slip of loadVoices: the female name is searched in all voices
DefaultVoiceOfAnyLocale(voices) ==
  LET indianVoices == IndianVoices(voices)
      englishVoices == EnglishVoices(voices)
  IN  IF Len(indianVoices) > 0 THEN indianVoices[1]
      ELSE LET femaleVoice == Find(voices, {v \in Range(voices) : IsFemaleName(v)})
           IN  IF femaleVoice # NoVoice THEN femaleVoice
               ELSE IF First(englishVoices) # NoVoice THEN First(englishVoices)
               ELSE First(voices)

\* loadVoices: the voice passed to setSelectedVoice
DefaultVoiceOf(voices) ==
  LET indianVoices == IndianVoices(voices)
      englishVoices == EnglishVoices(voices)
  IN  IF Len(indianVoices) > 0 THEN indianVoices[1]
      ELSE LET femaleVoice == Find(englishVoices,
                                  {v \in Range(englishVoices) : IsFemaleName(v)})
           IN  IF femaleVoice # NoVoice THEN femaleVoice
               ELSE IF First(englishVoices) # NoVoice THEN First(englishVoices)
               ELSE First(voices)

\* ---------------------------------------------------------------- progress

RECURSIVE GCD(_, _)
GCD(a, b) == IF b = 0 THEN a ELSE GCD(b, a % b)

\* the number 100 * n / d held in the progress state, as a fraction in
\* lowest terms of 100 (d = 0 stands for the non-finite result of a division
\* by zero)
Pct(n, d) ==
  IF d = 0 THEN [n |-> 1, d |-> 0]
  ELSE LET g == GCD(n, d) IN IF g = 0 THEN [n |-> 0, d |-> 1] ELSE [n |-> n \div g, d |-> d \div g]

\* setProgress(0) and setProgress(100)
Pct0 == Pct(0, 1)
Pct100 == Pct(1, 1)

\* Math.round(progress), the percentage shown
Rounded(p) == (200 * p.n + p.d) \div (2 * p.d)

\* ------------------------------------------------------------------- state

\* DEFAULT of the maxLength parameter of chunkText
DefaultMaxLength == 200

\* most utterances created in one behaviour
MaxUtter == 3

\* a sentence of n characters: n - 1 letters and a full stop
Sentence(n) == [i \in 1..n |-> IF i = n THEN "." ELSE "a"]

\* sample documents: one sentence (1 chunk), and three sentences too long to
\* share a chunk of DefaultMaxLength characters (3 chunks)
DocShort == Sentence(3)
DocLong == Sentence(101) \o Sentence(102) \o Sentence(103)
DocTexts == {DocShort, DocLong}

\* sample positions of the speed slider, in tenths (min 0.5, max 2)
Speeds == {10, 20}

\* null of utteranceRef; the ref holds the id of the utterance it points to
NoUtterance == 0

VARIABLES
  \* the chunker specification: input, argument, result, called
  cText, cMax, cChunks, cDone,
  \* Index: AudioPlayer is rendered; its text prop
  mounted, text,
  \* AudioPlayer's useState and useRef cells
  isPlaying, speed, availableVoices, selectedVoice, progress,
  utteranceRef, chunksRef, currentChunkRef,
  \* the title of the toast the last step raised, "none" when it raised none
  toast,
  \* window.speechSynthesis: getVoices(), the utterance queue (its head is the
  \* one being spoken), the paused flag, and the utterances removed by
  \* cancel() whose end/error event the engine has not delivered yet
  synthVoices, synthQueue, synthPaused, cancelled,
  \* utterances created so far, plus one
  nextId,
  \* history: the last transport event (start, resume, pause, restart,
  \* error, complete, unmount); the number of onend events since the session
  \* started while no user command and no error has followed, else -1
  mode, finished,
  \* history: the voice selected by the last run of loadVoices
  lastDefault,
  \* the user has left the player alone for good
  handsOff,
  \* FileUpload: the position of the extraction in progress, the variant of
  \* extractTextFromPDF that runs it, the document, the page loop's index,
  \* fullText, Index's isProcessing state, the upload progress state, and the
  \* title of the last toast
  xpc, variant, xDoc, xPage, fullText, isProcessing, uploadProgress, xToast,
  \* history of the extraction: the texts passed to onTextExtracted, whether
  \* the OCR branch was entered, the calls of worker.recognize and of the
  \* correction endpoint, and what correctTextWithAI was given and returned
  delivered, usedOcr, ocrCalls, aiCalls, aiResult

cvars == <<cText, cMax, cChunks, cDone>>

evars == <<xpc, variant, xDoc, xPage, fullText, isProcessing, uploadProgress, xToast,
           delivered, usedOcr, ocrCalls, aiCalls, aiResult>>

pvars == <<mounted, text, isPlaying, speed, availableVoices, selectedVoice, progress,
           utteranceRef, chunksRef, currentChunkRef, toast,
           synthVoices, synthQueue, synthPaused, cancelled, nextId,
           mode, finished, lastDefault, handsOff>>

vars == <<cvars, pvars, evars>>

\* the cells a handler of AudioPlayer or the engine may write, as one record
Cells ==
  [isPlaying |-> isPlaying, speed |-> speed, availableVoices |-> availableVoices,
   selectedVoice |-> selectedVoice, progress |-> progress,
   utteranceRef |-> utteranceRef, chunksRef |-> chunksRef,
   currentChunkRef |-> currentChunkRef, toast |-> "none",
   synthQueue |-> synthQueue, synthPaused |-> synthPaused,
   cancelled |-> cancelled, nextId |-> nextId]

\* the handler's writes take effect
Commit(st) ==
  /\ isPlaying' = st.isPlaying
  /\ speed' = st.speed
  /\ availableVoices' = st.availableVoices
  /\ selectedVoice' = st.selectedVoice
  /\ progress' = st.progress
  /\ utteranceRef' = st.utteranceRef
  /\ chunksRef' = st.chunksRef
  /\ currentChunkRef' = st.currentChunkRef
  /\ toast' = st.toast
  /\ synthQueue' = st.synthQueue
  /\ synthPaused' = st.synthPaused
  /\ cancelled' = st.cancelled
  /\ nextId' = st.nextId

\* a useState setter: React drops the update of an unmounted component
SetIsPlaying(st, v) == IF mounted THEN [st EXCEPT !.isPlaying = v] ELSE st
SetProgress(st, v) == IF mounted THEN [st EXCEPT !.progress = v] ELSE st
SetSpeed(st, v) == IF mounted THEN [st EXCEPT !.speed = v] ELSE st
SetSelectedVoice(st, v) == IF mounted THEN [st EXCEPT !.selectedVoice = v] ELSE st
SetAvailableVoices(st, v) == IF mounted THEN [st EXCEPT !.availableVoices = v] ELSE st

Toast(st, title) == [st EXCEPT !.toast = title]

\* ------------------------------------------------- window.speechSynthesis

\* speechSynthesis.speak(u): u joins the queue
SynthSpeak(st, u) == [st EXCEPT !.synthQueue = Append(@, u)]

\* speechSynthesis.cancel(): the queue is emptied, the paused flag is left as
\* it is; the engine may still deliver an event of a removed utterance
SynthCancel(st) ==
  [st EXCEPT !.synthQueue = <<>>, !.cancelled = @ \cup Range(st.synthQueue)]

\* speechSynthesis.pause() and speechSynthesis.resume()
SynthPause(st) == [st EXCEPT !.synthPaused = TRUE]
SynthResume(st) == [st EXCEPT !.synthPaused = FALSE]

\* ------------------------------------------------------------ AudioPlayer

\* speakNextChunk of a render whose speed state was capSpeed.  An utterance
\* is recorded with the chunk's index and text and its rate; its pitch,
\* volume and voice are read by no handler and are left out.
speakNextChunk(st, capSpeed) ==
  IF st.currentChunkRef >= Len(st.chunksRef)
  THEN Toast(SetProgress(SetIsPlaying(st, FALSE), Pct100), "Completed!")
  ELSE LET utterance == [id |-> st.nextId,
                         idx |-> st.currentChunkRef,
                         text |-> st.chunksRef[st.currentChunkRef + 1],
                         rate |-> capSpeed]
       IN  SynthSpeak([st EXCEPT !.utteranceRef = utterance.id, !.nextId = @ + 1],
                      utterance)

\* a plausible slip of onend: the progress is computed before the increment
OnEndLate(st, u) ==
  LET s1 == [st EXCEPT !.currentChunkRef = @ + 1]
  IN  speakNextChunk(SetProgress(s1, Pct(st.currentChunkRef, Len(st.chunksRef))), u.rate)

\* utterance.onend of u: its speakNextChunk is the one that created u
OnEnd(st, u) ==
  LET cur == st.currentChunkRef + 1
      s1 == [st EXCEPT !.currentChunkRef = cur]
  IN  speakNextChunk(SetProgress(s1, Pct(cur, Len(st.chunksRef))), u.rate)

\* utterance.onerror
OnError(st, u) == SetIsPlaying(Toast(st, "Error"), FALSE)

\* a plausible slip of handlePlayPause: Pause cancels instead of pausing and
\* Play always starts afresh
handlePlayPauseCancels(st) ==
  IF st.selectedVoice = NoVoice
  THEN Toast(st, "No voice available")
  ELSE IF st.isPlaying
  THEN SetIsPlaying(SynthCancel(st), FALSE)
  ELSE LET s1 == [st EXCEPT !.chunksRef = chunkText(text, DefaultMaxLength),
                            !.currentChunkRef = 0]
           s2 == Toast(SetIsPlaying(SetProgress(s1, Pct0), TRUE), "Starting playback")
       IN  speakNextChunk(s2, st.speed)

\* a plausible slip of handlePlayPause: the test of selectedVoice is missing
handlePlayPauseNoGuard(st) ==
  IF st.isPlaying
  THEN SetIsPlaying(SynthPause(st), FALSE)
  ELSE IF st.synthPaused
  THEN SetIsPlaying(SynthResume(st), TRUE)
  ELSE LET s1 == [st EXCEPT !.chunksRef = chunkText(text, DefaultMaxLength),
                            !.currentChunkRef = 0]
           s2 == Toast(SetIsPlaying(SetProgress(s1, Pct0), TRUE), "Starting playback")
       IN  speakNextChunk(s2, st.speed)

\* handlePlayPause
handlePlayPause(st) ==
  IF st.selectedVoice = NoVoice
  THEN Toast(st, "No voice available")
  ELSE IF st.isPlaying
  THEN SetIsPlaying(SynthPause(st), FALSE)
  ELSE IF st.synthPaused
  THEN SetIsPlaying(SynthResume(st), TRUE)
  ELSE LET s1 == [st EXCEPT !.chunksRef = chunkText(text, DefaultMaxLength),
                            !.currentChunkRef = 0]
           s2 == Toast(SetIsPlaying(SetProgress(s1, Pct0), TRUE), "Starting playback")
       IN  speakNextChunk(s2, st.speed)

\* a plausible slip of handleRestart: the engine is not cancelled
handleRestartNoCancel(st) ==
  [SetProgress(SetIsPlaying(st, FALSE), Pct0) EXCEPT !.currentChunkRef = 0]

\* handleRestart
handleRestart(st) ==
  [SetProgress(SetIsPlaying(SynthCancel(st), FALSE), Pct0) EXCEPT !.currentChunkRef = 0]

\* handleSpeedChange([newSpeed]): speakNextChunk is the one of the render
\* that made this handler, whose speed is the one before setSpeed
handleSpeedChange(st, newSpeed) ==
  LET s1 == SetSpeed(st, newSpeed)
  IN  IF st.isPlaying /\ st.utteranceRef # NoUtterance
      THEN speakNextChunk(SynthCancel(s1), st.speed)
      ELSE s1

\* handleVoiceChange(voiceName)
handleVoiceChange(st, voiceName) ==
  LET voice == Find(st.availableVoices,
                    {v \in Range(st.availableVoices) : v.name = voiceName})
  IN  IF voice # NoVoice
      THEN LET s1 == SetSelectedVoice(st, voice)
           IN  IF st.isPlaying
               THEN SetProgress(SetIsPlaying(SynthCancel(s1), FALSE), Pct0)
               ELSE s1
      ELSE st

\* a plausible slip of loadVoices: a voice already selected is kept
loadVoicesKeepsChoice(st, voices) ==
  IF st.selectedVoice # NoVoice
  THEN SetAvailableVoices(st, AvailableOf(voices))
  ELSE SetSelectedVoice(SetAvailableVoices(st, AvailableOf(voices)), DefaultVoiceOf(voices))

\* a plausible slip of loadVoices: the selection is left alone during playback
loadVoicesUnlessPlaying(st, voices) ==
  IF st.isPlaying
  THEN SetAvailableVoices(st, AvailableOf(voices))
  ELSE SetSelectedVoice(SetAvailableVoices(st, AvailableOf(voices)), DefaultVoiceOf(voices))

\* loadVoices, run at mount and on every voiceschanged event
loadVoices(st, voices) ==
  SetSelectedVoice(SetAvailableVoices(st, AvailableOf(voices)), DefaultVoiceOf(voices))

\* ------------------------------------------------------------ the actions

\* a session starts: handlePlayPause takes its "starting fresh" branch
StartsSession == selectedVoice # NoVoice /\ ~isPlaying /\ ~synthPaused

\* the writes of a handler, bounded to MaxUtter utterances
Do(st) == st.nextId <= MaxUtter + 1 /\ Commit(st)

\* speakNextChunk took its "Completed!" branch
Completes(st) == st.toast = "Completed!"

\* the user clicks the play/pause button: Pause while isPlaying, else Play
PlayPause ==
  /\ mounted
  /\ Do(handlePlayPause(Cells))
  /\ mode' = IF selectedVoice = NoVoice THEN mode
             ELSE IF isPlaying THEN "pause"
             ELSE IF synthPaused THEN "resume"
             ELSE "start"
  /\ finished' = IF StartsSession THEN 0 ELSE -1
  /\ UNCHANGED <<cvars, evars, lastDefault, handsOff, mounted, text, synthVoices>>

\* the user clicks the restart button
Restart ==
  /\ mounted
  /\ Do(handleRestart(Cells))
  /\ mode' = "restart"
  /\ finished' = -1
  /\ UNCHANGED <<cvars, evars, lastDefault, handsOff, mounted, text, synthVoices>>

\* the user moves the speed slider to v
SpeedChange(v) ==
  /\ mounted
  /\ v # speed
  /\ Do(handleSpeedChange(Cells, v))
  /\ finished' = -1
  /\ UNCHANGED <<cvars, evars, lastDefault, handsOff, mounted, text, synthVoices, mode>>

\* the user picks the voice at index i of the voice menu
VoiceChange(i) ==
  /\ mounted
  /\ availableVoices[i] # selectedVoice
  /\ Do(handleVoiceChange(Cells, availableVoices[i].name))
  /\ finished' = -1
  /\ UNCHANGED <<cvars, evars, lastDefault, handsOff, mounted, text, synthVoices, mode>>

\* the engine's voice list becomes l and it fires voiceschanged; the list is
\* empty only before the engine has loaded its voices
VoicesChanged(l) ==
  /\ mounted
  /\ l # <<>>
  /\ synthVoices' = l
  /\ Do(loadVoices(Cells, l))
  /\ lastDefault' = loadVoices(Cells, l).selectedVoice
  /\ UNCHANGED <<cvars, evars, handsOff, mounted, text, mode, finished>>

\* a plausible slip: an effect on the text prop re-chunks the new text
TextUpdateRechunks(t) ==
  /\ mounted
  /\ t # text
  /\ text' = t
  /\ Do([Cells EXCEPT !.chunksRef = chunkText(t, DefaultMaxLength)])
  /\ UNCHANGED <<cvars, evars, lastDefault, handsOff, mounted, synthVoices, mode, finished>>

\* Index: TextDisplay saves an edited text, the text prop changes
TextUpdate(t) ==
  /\ mounted
  /\ t # text
  /\ text' = t
  /\ Do(Cells)
  /\ UNCHANGED <<cvars, evars, lastDefault, handsOff, mounted, synthVoices, mode, finished>>

\* Index stops rendering AudioPlayer: the effect cleanups run
Unmount ==
  /\ mounted
  /\ mounted' = FALSE
  /\ Do(SynthCancel(Cells))
  /\ mode' = "unmount"
  /\ finished' = -1
  /\ UNCHANGED <<cvars, evars, lastDefault, handsOff, text, synthVoices>>

\* the history after onend has run with result st
EndHistory(st) ==
  /\ mode' = IF mounted /\ Completes(st) THEN "complete" ELSE mode
  /\ finished' = IF finished >= 0 THEN finished + 1 ELSE -1

\* the history after onerror has run
ErrorHistory ==
  /\ mode' = IF mounted THEN "error" ELSE mode
  /\ finished' = -1

\* the engine finishes speaking the head of its queue and fires its end event
UtteranceEnd ==
  /\ synthQueue # <<>> /\ ~synthPaused
  /\ LET st == OnEnd([Cells EXCEPT !.synthQueue = Tail(@)], Head(synthQueue))
     IN  Do(st) /\ EndHistory(st)
  /\ UNCHANGED <<cvars, evars, lastDefault, handsOff, mounted, text, synthVoices>>

\* the engine fails on the head of its queue and fires its error event
UtteranceError ==
  /\ synthQueue # <<>> /\ ~synthPaused
  /\ Do(OnError([Cells EXCEPT !.synthQueue = Tail(@)], Head(synthQueue)))
  /\ ErrorHistory
  /\ UNCHANGED <<cvars, evars, lastDefault, handsOff, mounted, text, synthVoices>>

\* the engine fires the end event of an utterance that cancel() removed
\* (an event it never fires stays in the set)
CancelledEnd(u) ==
  /\ LET st == OnEnd([Cells EXCEPT !.cancelled = @ \ {u}], u)
     IN  Do(st) /\ EndHistory(st)
  /\ UNCHANGED <<cvars, evars, lastDefault, handsOff, mounted, text, synthVoices>>

\* the engine fires the error event ("interrupted", "canceled") of an
\* utterance that cancel() removed
CancelledError(u) ==
  /\ Do(OnError([Cells EXCEPT !.cancelled = @ \ {u}], u))
  /\ ErrorHistory
  /\ UNCHANGED <<cvars, evars, lastDefault, handsOff, mounted, text, synthVoices>>

\* the chunker specification's variables, at rest
ChunkIdle ==
  /\ cText = <<>>
  /\ cMax = 1
  /\ cChunks = <<>>
  /\ cDone = FALSE

\* AudioPlayer mounted with a non-empty text; loadVoices has run once
PlayerInit ==
  /\ mounted = TRUE
  /\ text \in DocTexts
  /\ isPlaying = FALSE
  /\ speed = 10
  /\ synthVoices \in VoiceLists
  /\ availableVoices = AvailableOf(synthVoices)
  /\ selectedVoice = DefaultVoiceOf(synthVoices)
  /\ progress = Pct0
  /\ utteranceRef = NoUtterance
  /\ chunksRef = <<>>
  /\ currentChunkRef = 0
  /\ toast = "none"
  /\ synthQueue = <<>>
  /\ synthPaused = FALSE
  /\ cancelled = {}
  /\ nextId = 1
  /\ mode = "init"
  /\ finished = -1
  /\ lastDefault = DefaultVoiceOf(synthVoices)
  /\ handsOff = FALSE

\* null of aiResult: correctTextWithAI has not returned
NoResult == [outcome |-> "none"]

\* the upload progress n / d percent, in lowest terms
Ratio(n, d) == LET g == GCD(n, d) IN IF g = 0 THEN [n |-> 0, d |-> 1]
                                     ELSE [n |-> n \div g, d |-> d \div g]

\* FileUpload mounted, no extraction started
ExtractIdle ==
  /\ xpc = "idle"
  /\ variant = "ocr"
  /\ xDoc = <<>>
  /\ xPage = 0
  /\ fullText = <<>>
  /\ isProcessing = FALSE
  /\ uploadProgress = Ratio(0, 1)
  /\ xToast = "none"
  /\ delivered = <<>>
  /\ usedOcr = FALSE
  /\ ocrCalls = 0
  /\ aiCalls = 0
  /\ aiResult = NoResult

Init == ChunkIdle /\ PlayerInit /\ ExtractIdle

Next ==
  \/ PlayPause
  \/ Restart
  \/ \E v \in Speeds : SpeedChange(v)
  \/ \E i \in 1..Len(availableVoices) : VoiceChange(i)
  \/ \E l \in VoiceLists : VoicesChanged(l)
  \/ \E t \in DocTexts : TextUpdate(t)
  \/ Unmount
  \/ UtteranceEnd
  \/ UtteranceError
  \/ \E u \in cancelled : CancelledEnd(u)
  \/ \E u \in cancelled : CancelledError(u)

Spec == Init /\ [][Next]_vars

\* ----------------------------------------------------- playback properties

\* the step is an end, an error, or either callback of the engine
EndStep == UtteranceEnd \/ \E u \in cancelled : CancelledEnd(u)
ErrorStep == UtteranceError \/ \E u \in cancelled : CancelledError(u)
CallbackStep == EndStep \/ ErrorStep

\* the utterance most recently passed to speechSynthesis.speak
LastSpoken == synthQueue[Len(synthQueue)]

\* the step has created an utterance and passed it to the engine
Dispatches == nextId' = nextId + 1 /\ synthQueue' # <<>> /\ LastSpoken'.id = nextId

\* C1 (as claimed): once a restart has been processed (and no start has
\* followed), an end or error callback delivered by the engine, which is then
\* a callback of an utterance dispatched before the restart, changes none of
\* position, progress and playing and dispatches no chunk.
C1_StaleCallbackIgnored ==
  [][(mode = "restart" /\ CallbackStep) =>
       (UNCHANGED <<currentChunkRef, progress, isPlaying>> /\ nextId' = nextId)]_vars

\* C2 (as claimed): every utterance dispatched, the one a speed change
\* re-dispatches while Playing included, carries the most recently selected
\* rate.
C2_RateCarried ==
  [][Dispatches => LastSpoken'.rate = speed']_vars

\* the step starts a fresh session: the text is re-chunked, position and
\* progress are 0, playing is true, and chunk 0 is the utterance dispatched
StartsFresh ==
  /\ Dispatches
  /\ chunksRef' = chunkText(text', DefaultMaxLength)
  /\ currentChunkRef' = 0
  /\ progress' = Pct0
  /\ isPlaying'
  /\ LastSpoken'.idx = 0 /\ LastSpoken'.text = chunksRef'[1]

\* C5 (as claimed): when the sequencer has stopped by a restart, an engine
\* error or completion and a voice is selected, the Play command (the one
\* step that then leaves mode "start" or "resume") starts a fresh session.
C5_PlayStartsFresh ==
  [][(/\ mode \in {"restart", "error", "complete"}
      /\ ~isPlaying /\ selectedVoice # NoVoice
      /\ mode' \in {"start", "resume"}) => StartsFresh]_vars

\* C6: a restart, in any state, leaves position 0, progress 0 and playing
\* false, and the engine's queue is emptied in the same step.
C6_Restart ==
  [][Restart => (/\ currentChunkRef' = 0
                 /\ progress' = Pct0
                 /\ ~isPlaying'
                 /\ synthQueue' = <<>>
                 /\ Range(synthQueue) \subseteq cancelled')]_vars

\* C6 witness: a restart issued while Paused has cancelled the suspended
\* utterance of a session that had advanced.
C6_Witness ==
  /\ mode = "restart" /\ synthPaused /\ cancelled # {} /\ synthQueue = <<>>
  /\ \E u \in cancelled : u.idx > 0
  /\ currentChunkRef = 0 /\ progress = Pct0 /\ ~isPlaying

\* C7 (as claimed): after a restart or an unmount, and until a new start, the
\* engine holds no utterance, whatever callbacks it delivers.
C7_SilentAfterCancel ==
  mode \in {"restart", "unmount"} => synthQueue = <<>>

\* C8: the Pause command suspends the engine and leaves position, chunk list
\* and the engine's queue as they are; the Play command that follows resumes
\* the engine without re-chunking, resetting or dispatching; and the next
\* chunkFinished advances position by one from there.
C8_PauseResume ==
  [][/\ (isPlaying /\ PlayPause) =>
          (/\ synthPaused' /\ ~isPlaying'
           /\ UNCHANGED <<currentChunkRef, chunksRef, synthQueue, nextId>>)
     /\ (mode = "pause" /\ PlayPause) =>
          (/\ ~synthPaused' /\ isPlaying'
           /\ UNCHANGED <<currentChunkRef, chunksRef, synthQueue, nextId, progress>>)
     /\ (mode = "resume" /\ EndStep) =>
          (currentChunkRef' = currentChunkRef + 1)]_vars

\* C8 witness: a session paused at position 1 and resumed has finished its
\* chunk 1: position 2, chunk 2 in flight, nothing ever cancelled.
C8_Witness ==
  /\ mode = "resume" /\ isPlaying /\ ~synthPaused /\ cancelled = {}
  /\ currentChunkRef = 2 /\ Len(synthQueue) = 1 /\ Head(synthQueue).idx = 2
  /\ finished = -1

\* the percentages shown over a session of three chunks
ShownOfThree == <<33, 67, 100>>

\* C9: in a session of n chunks that no user command and no error has
\* touched, the k-th chunkFinished (1 <= k <= n) leaves position k and
\* progress 100*k/n; for k < n playing stays true and chunk k is dispatched;
\* for k = n the sequencer is Completed (playing false, progress 100) and
\* nothing is dispatched.  For n = 3 the percentages shown are 33, 67, 100.
C9_ChunkFinished ==
  [][(finished >= 0 /\ finished < Len(chunksRef) /\ EndStep) =>
       LET k == finished + 1
           n == Len(chunksRef)
       IN  /\ finished' = k
           /\ currentChunkRef' = k
           /\ progress' = Pct(k, n)
           /\ k < n => (isPlaying' /\ Dispatches /\ LastSpoken'.idx = k
                        /\ LastSpoken'.text = chunksRef[k + 1])
           /\ k = n => (~isPlaying' /\ progress' = Pct100 /\ nextId' = nextId
                        /\ toast' = "Completed!")
           /\ n = 3 => Rounded(progress') = ShownOfThree[k]]_vars

\* C9 witness: three chunkFinished events have completed an untouched
\* session of three chunks.
C9_Witness ==
  /\ finished = 3 /\ Len(chunksRef) = 3 /\ currentChunkRef = 3
  /\ ~isPlaying /\ progress = Pct100 /\ mode = "complete" /\ synthQueue = <<>>

\* C10 (as claimed): an engine error stops the sequencer, raises the "Error"
\* notification and leaves position as it is; and from then until the user
\* starts again no chunk is dispatched and position does not advance.
C10_ErrorHalts ==
  [][/\ (mounted /\ ErrorStep) =>
          (/\ ~isPlaying' /\ toast' = "Error"
           /\ currentChunkRef' = currentChunkRef /\ nextId' = nextId)
     /\ (mode = "error" /\ mode' = "error") =>
          (nextId' = nextId /\ currentChunkRef' = currentChunkRef)]_vars

\* the progress p lies in [0, 100]
ProgressInRange(p) == p.d > 0 /\ 0 <= p.n /\ p.n <= p.d

\* the progress p is less than the progress q
ProgressLess(p, q) == p.d > 0 /\ q.d > 0 /\ p.n * q.d < q.n * p.d

\* the step is the start of a session: handlePlayPause's "starting fresh"
StartStep == mode' = "start" /\ finished' = 0 /\ Dispatches

\* the sequencer is Idle: never started, restarted, or halted by an error
Idle == mode \in {"init", "restart", "error"} /\ ~isPlaying

\* the sequencer is Completed
Completed == currentChunkRef = Len(chunksRef) /\ ~isPlaying /\ synthQueue = <<>>

\* C11 (as claimed): in every reachable state position lies in 0..number of
\* chunks and progress lies in [0, 100].
C11_Bounds ==
  /\ 0 <= currentChunkRef /\ currentChunkRef <= Len(chunksRef)
  /\ ProgressInRange(progress)

\* C12 (as claimed): progress is 0 whenever the sequencer is Idle and right
\* after a session has started, and progress is 100 only when the sequencer
\* is Completed.
C12_ProgressEnds ==
  /\ Idle => progress = Pct0
  /\ (mode = "start" /\ finished = 0) => progress = Pct0
  /\ progress = Pct100 => Completed

\* C13 (as claimed): a step that lowers progress is a restart command or the
\* start of a new session.
C13_Monotone ==
  [][ProgressLess(progress', progress) => (Restart \/ StartStep)]_vars

\* C14 (as claimed): a step that changes position, playing or progress is an
\* engine callback or a play, pause or restart command.
C14_Frame ==
  [][(<<currentChunkRef, isPlaying, progress>>' # <<currentChunkRef, isPlaying, progress>>)
       => (CallbackStep \/ Restart \/ PlayPause)]_vars

\* C15: the start of a session sets the chunk list to the chunks of the text
\* prop of that moment, and every other step (chunkFinished, pause, resume,
\* speed change, voice change, a change of the text prop) leaves it as it is.
C15_ChunksOnce ==
  [][/\ StartStep => chunksRef' = chunkText(text, DefaultMaxLength)
     /\ ~StartStep => chunksRef' = chunksRef]_vars

\* C15 witness: the text prop was replaced during a session of three chunks,
\* which plays on from the chunk list of the old text.
C15_Witness ==
  /\ text = DocShort /\ Len(chunksRef) = 3 /\ isPlaying
  /\ synthQueue # <<>> /\ Head(synthQueue).idx = 1
  /\ Head(synthQueue).text = chunksRef[2]

\* C17: with no voice selected, a Play command leaves chunk list, engine,
\* position, progress and playing as they are and raises the notification
\* "No voice available".
C17_NoVoiceNoOp ==
  [][(selectedVoice = NoVoice /\ PlayPause) =>
       (/\ UNCHANGED <<chunksRef, synthQueue, synthPaused, nextId,
                       currentChunkRef, progress, isPlaying>>
        /\ toast' = "No voice available")]_vars

\* C17 witness: Play was clicked before the engine had loaded any voice.
C17_Witness ==
  /\ selectedVoice = NoVoice /\ toast = "No voice available"
  /\ chunksRef = <<>> /\ nextId = 1 /\ ~isPlaying /\ synthQueue = <<>>

\* ---------------------------------------------- voice selector specification

\* longest voice list of the voice selector specification
MaxVoices == 3

\* the voices of the voice selector specification's lists
VoiceSet == {VoiceRavi, VoiceSam, VoiceDan, VoiceAnna, VoiceVicky}

\* all voice lists of length at most n
VoiceSeqs(n) == UNION {[1..k -> VoiceSet] : k \in 0..n}

\* AudioPlayer mounted before the engine has loaded its voices
VoiceInit ==
  /\ ChunkIdle
  /\ PlayerInit
  /\ ExtractIdle
  /\ text = DocShort
  /\ synthVoices = <<>>

\* the engine announces a voice list; the user picks voices in the menu
VoiceNext ==
  \/ \E l \in VoiceSeqs(MaxVoices) : VoicesChanged(l)
  \/ \E i \in 1..Len(availableVoices) : VoiceChange(i)

SpecVoice == VoiceInit /\ [][VoiceNext]_vars

\* ------------------------------------------------ voice selector properties

\* the step in which the engine's voice list changes
VoicesStep == synthVoices' # synthVoices

\* the voices a rule of the policy matches
PreferredLocale(voices) ==
  {v \in Range(voices) : \/ Includes(v.lang, <<"e","n","-","I","N">>)
                          \/ Includes(v.lang, <<"e","n","_","I","N">>)}
FemaleNamed(voices) == {v \in Range(voices) : IsFemaleName(v)}
BaseLanguage(voices) == {v \in Range(voices) : StartsWith(v.lang, <<"e","n">>)}

\* the first voice of the list that is in the set
FirstOf(voices, set) ==
  voices[CHOOSE i \in 1..Len(voices) :
           voices[i] \in set /\ \A j \in 1..(i - 1) : voices[j] \notin set]

\* C16 (as claimed): the default voice v of a list follows the first
\* matching rule of: a voice of the preferred locale; a voice, of any locale,
\* with a female name; the first voice of the base language; the first voice;
\* none.
ClaimedDefault(voices, v) ==
  IF PreferredLocale(voices) # {} THEN v \in PreferredLocale(voices)
  ELSE IF FemaleNamed(voices) # {} THEN v \in FemaleNamed(voices)
  ELSE IF BaseLanguage(voices) # {} THEN v = FirstOf(voices, BaseLanguage(voices))
  ELSE IF voices # <<>> THEN v = voices[1]
  ELSE v = NoVoice

C16_Original ==
  [][VoicesStep => ClaimedDefault(synthVoices', selectedVoice')]_vars

\* C16 (amended): the default voice v of a list follows the first matching
\* rule of: the first voice of the preferred locale; the first voice of the
\* base language with a female name; the first voice of the base language;
\* the first voice; none.
AmendedDefault(voices, v) ==
  IF PreferredLocale(voices) # {} THEN v = FirstOf(voices, PreferredLocale(voices))
  ELSE IF FemaleNamed(voices) \cap BaseLanguage(voices) # {}
  THEN v = FirstOf(voices, FemaleNamed(voices) \cap BaseLanguage(voices))
  ELSE IF BaseLanguage(voices) # {} THEN v = FirstOf(voices, BaseLanguage(voices))
  ELSE IF voices # <<>> THEN v = voices[1]
  ELSE v = NoVoice

C16_DefaultVoice ==
  [][VoicesStep => AmendedDefault(synthVoices', selectedVoice')]_vars

\* C16 witness: with a female-named voice of another language first in the
\* list, the female-named voice of the base language is the default.
C16_Witness ==
  /\ synthVoices = <<VoiceVicky, VoiceDan, VoiceSam>>
  /\ selectedVoice = VoiceSam

\* C18: a step in which the engine's voice list changes leaves the selected
\* voice equal to the default of the new list and the offered list equal to
\* the one computed from the new list, whatever the user had picked.
C18_Reselect ==
  [][VoicesStep => (/\ selectedVoice' = DefaultVoiceOf(synthVoices')
                    /\ availableVoices' = AvailableOf(synthVoices'))]_vars

\* C18 witness: the engine has announced a list with one en-IN voice, which
\* is the only one offered and the one selected.
C18_Witness ==
  /\ synthVoices = <<VoiceAnna, VoiceRavi, VoiceDan>>
  /\ availableVoices = <<VoiceRavi>>
  /\ selectedVoice = VoiceRavi

\* ------------------------------------------------- chunker specification

\* all texts over Alphabet of length at most n
Texts(n) == UNION {[1..k -> Alphabet] : k \in 0..n}

\* the documented example: a text of three sentences, chunked at 40
ExampleText ==
  <<"H", "e", "l", "l", "o", " ", "w", "o", "r", "l", "d", ".", " ", "T",
    "h", "i", "s", " ", "i", "s", " ", "a", " ", "t", "e", "s", "t", " ",
    "s", "e", "n", "t", "e", "n", "c", "e", " ", "t", "h", "a", "t", " ",
    "i", "s", " ", "f", "a", "i", "r", "l", "y", " ", "l", "o", "n", "g",
    " ", "i", "n", "d", "e", "e", "d", ".", " ", "S", "h", "o", "r", "t",
    " ", "o", "n", "e", ".">>
ExampleMaxLength == 40

ChunkInit ==
  /\ cText \in Texts(MaxLen) \cup {ExampleText}
  /\ cMax \in 1..MaxChunkLen \cup {ExampleMaxLength}
  /\ cChunks = <<>>
  /\ cDone = FALSE
  /\ PlayerInit
  /\ ExtractIdle
  /\ text = DocShort
  /\ synthVoices = <<>>

\* one call chunkText(cText, cMax)
CallChunkText ==
  /\ ~cDone
  /\ cChunks' = chunkText(cText, cMax)
  /\ cDone' = TRUE
  /\ UNCHANGED <<cText, cMax, pvars, evars>>

ChunkNext == CallChunkText

SpecChunk == ChunkInit /\ [][ChunkNext]_vars

\* ------------------------------------------------------ chunker properties

\* the characters of s that are not white space, in order
NoSpace(s) == SelectSeq(s, LAMBDA c : ~IsSpace(c))

\* the chunks concatenated in order
RECURSIVE Concat(_)
Concat(ss) == IF ss = <<>> THEN <<>> ELSE Head(ss) \o Concat(Tail(ss))

HasTerm(s) == \E i \in 1..Len(s) : IsTerm(s[i])

\* C3 (as claimed): for every input text, the chunks concatenated in order,
\* white space ignored, are exactly the input text, white space ignored: no
\* word is dropped, reordered or duplicated.
C3_WordsPreserved ==
  cDone => NoSpace(Concat(cChunks)) = NoSpace(cText)

\* C4 (as claimed): every chunk of a non-empty text is at most maxLength
\* long, unless it is the single chunk of a text without '.', '!', '?'.
C4_Original ==
  (cDone /\ cText # <<>>) =>
    \A i \in 1..Len(cChunks) :
      \/ Len(cChunks[i]) <= cMax
      \/ (Len(cChunks) = 1 /\ ~HasTerm(cText))

\* C4 (amended): every chunk of a non-empty text is at most maxLength long,
\* unless it is one sentence unit on its own (one match of the sentence
\* pattern, or the whole text when nothing matches), trimmed.
C4_ChunkBound ==
  (cDone /\ cText # <<>>) =>
    \A i \in 1..Len(cChunks) :
      \/ Len(cChunks[i]) <= cMax
      \/ \E j \in 1..Len(Sentences(cText)) : cChunks[i] = Trim(Sentences(cText)[j])

\* C4 witness: a text with sentence punctuation gives several chunks, one of
\* them a single sentence longer than maxLength, another within maxLength.
C4_Witness ==
  /\ cDone /\ HasTerm(cText) /\ Len(cChunks) > 1
  /\ \E i \in 1..Len(cChunks) : Len(cChunks[i]) > cMax
  /\ \E i \in 1..Len(cChunks) : Len(cChunks[i]) <= cMax

\* C19: a non-empty text gives at least one chunk, for every maxLength >= 1.
C19_NonEmpty ==
  (cDone /\ cText # <<>>) => Len(cChunks) >= 1

\* C19 witness: a text without sentence punctuation, longer than maxLength,
\* has given its one chunk.
C19_Witness ==
  /\ cDone /\ cText # <<>> /\ ~HasTerm(cText)
  /\ Len(cChunks) = 1 /\ Len(cChunks[1]) > cMax

\* the chunks the documented example is said to give
ExampleChunks ==
  <<<<"H", "e", "l", "l", "o", " ", "w", "o", "r", "l", "d", ".">>,
    <<"T", "h", "i", "s", " ", "i", "s", " ", "a", " ", "t", "e", "s", "t",
      " ", "s", "e", "n", "t", "e", "n", "c", "e", " ", "t", "h", "a", "t",
      " ", "i", "s", " ", "f", "a", "i", "r", "l", "y", " ", "l", "o", "n",
      "g", " ", "i", "n", "d", "e", "e", "d", ".">>,
    <<"S", "h", "o", "r", "t", " ", "o", "n", "e", ".">>>>

\* the sentences a to b of ss, concatenated
ConcatRange(ss, a, b) == Concat(SubSeq(ss, a, b))

\* with a flush before sentence j + 1 for each j in cut: the index of the
\* sentence that started the buffer holding sentence i, and that buffer
\* once sentence i has been appended
BufferStart(cut, i) ==
  IF \E j \in cut : j < i
  THEN 1 + CHOOSE j \in cut : j < i /\ \A k \in cut : k < i => k <= j
  ELSE 1
Buffer(ss, cut, i) == ConcatRange(ss, BufferStart(cut, i), i)

\* the flushes of cut are those of the rule: the buffer is flushed before
\* sentence i + 1 exactly when buffer + sentence is longer than maxLength
GreedyCut(ss, maxLength, cut) ==
  \A i \in 1..(Len(ss) - 1) :
    (i \in cut) <=> (Len(Buffer(ss, cut, i) \o ss[i + 1]) > maxLength)

\* the buffers flushed, in order and trimmed, the last one at the end of input
ChunksOfCut(ss, cut) ==
  LET ends == cut \cup {Len(ss)}
      nth(k) == CHOOSE e \in ends : Cardinality({x \in ends : x < e}) = k - 1
  IN  [k \in 1..Cardinality(ends) |-> Trim(Buffer(ss, cut, nth(k)))]

\* C20: the documented example gives exactly the three documented chunks;
\* and for every non-empty text the chunks are the buffers of the rule: a
\* sentence joins the buffer when buffer + sentence is at most maxLength
\* long, else the buffer is flushed and the sentence starts a new one.
C20_Greedy ==
  (cDone /\ cText # <<>>) =>
    /\ (cText = ExampleText /\ cMax = ExampleMaxLength) => cChunks = ExampleChunks
    /\ LET ss == Sentences(cText)
       IN  \E cut \in SUBSET (1..(Len(ss) - 1)) :
             GreedyCut(ss, cMax, cut) /\ cChunks = ChunksOfCut(ss, cut)

\* C20 witness: the documented example has been chunked at 40; its second
\* chunk is longer than 40.
C20_Witness ==
  /\ cDone /\ cText = ExampleText /\ cMax = ExampleMaxLength
  /\ Len(cChunks) = 3 /\ Len(cChunks[2]) > ExampleMaxLength

\* C21: a non-empty text without '.', '!', '?' gives exactly one chunk, the
\* whole text trimmed, whatever maxLength is.
C21_NoBoundary ==
  (cDone /\ cText # <<>> /\ ~HasTerm(cText)) => cChunks = <<Trim(cText)>>

\* C21 witness: a text without sentence punctuation and with white space
\* around it has given one chunk that differs from the text.
C21_Witness ==
  /\ cDone /\ cText # <<>> /\ ~HasTerm(cText)
  /\ IsSpace(cText[1]) /\ IsSpace(cText[Len(cText)]) /\ Trim(cText) # <<>>
  /\ Len(cChunks) = 1 /\ cChunks[1] # cText

\* ------------------------------------------- playback properties, continued

\* C26 (as claimed): within a session (started, and neither restarted nor
\* halted since) position advances only by the natural end of the utterance
\* of the chunk at position (the head of the engine's queue), so that a
\* session that reaches position n has heard the chunks 0..n-1 end in order;
\* the end event of a cancelled utterance advances nothing.
C26_NoSkip ==
  [][(mode \in {"start", "pause", "resume"}
      /\ currentChunkRef' = currentChunkRef + 1) =>
       (UtteranceEnd /\ Head(synthQueue).idx = currentChunkRef)]_vars

\* C27 (as claimed): the engine holds at most one utterance of the player.
C27_OneInFlight ==
  Len(synthQueue) <= 1

\* C28 (as claimed), for the mounted player: while playing, the engine is
\* not paused and is speaking an utterance of the chunk at position; while
\* not playing and not paused, the engine holds no utterance.
C28_PlayingMatchesEngine ==
  mounted =>
  /\ isPlaying =>
       (/\ ~synthPaused /\ synthQueue # <<>>
        /\ currentChunkRef < Len(chunksRef)
        /\ Head(synthQueue).text = chunksRef[currentChunkRef + 1])
  /\ (~isPlaying /\ ~synthPaused) => synthQueue = <<>>

\* C25: default voice selection is deterministic: when the engine announces
\* the list it announced before, loadVoices selects the voice it selected
\* then, whatever voice the user has selected since and whatever the
\* playback state is
C25_Deterministic ==
  [][VoicesChanged(synthVoices) => selectedVoice' = lastDefault]_vars

\* loadVoices has selected a voice, the user has selected another one since
\* and playback is on: a second announcement of the list finds other state
C25_Witness ==
  /\ synthVoices # <<>>
  /\ lastDefault # NoVoice
  /\ selectedVoice # lastDefault
  /\ isPlaying
  /\ synthQueue # <<>>

\* --------------------------------------------- sessions left to themselves

\* right after a session start the user leaves the player alone
WalkAway ==
  /\ ~handsOff
  /\ mode = "start" /\ finished = 0
  /\ handsOff' = TRUE
  /\ UNCHANGED <<cvars, evars, mounted, text, isPlaying, speed, availableVoices,
                 selectedVoice, progress, utteranceRef, chunksRef, currentChunkRef,
                 toast, synthVoices, synthQueue, synthPaused, cancelled, nextId,
                 mode, finished, lastDefault>>

\* the player of Spec, with a user who may leave it alone after a session
\* start: from then on no command is issued and the engine reports no error;
\* it still ends utterances, those that cancel() removed included
LiveNext ==
  \/ ~handsOff /\ PlayPause
  \/ ~handsOff /\ Restart
  \/ ~handsOff /\ \E v \in Speeds : SpeedChange(v)
  \/ ~handsOff /\ \E i \in 1..Len(availableVoices) : VoiceChange(i)
  \/ ~handsOff /\ \E l \in VoiceLists : VoicesChanged(l)
  \/ ~handsOff /\ \E t \in DocTexts : TextUpdate(t)
  \/ ~handsOff /\ Unmount
  \/ ~handsOff /\ UtteranceError
  \/ ~handsOff /\ \E u \in cancelled : CancelledError(u)
  \/ WalkAway
  \/ UtteranceEnd
  \/ \E u \in cancelled : CancelledEnd(u)

\* the engine speaks: an utterance at the head of its queue ends
SpecLive == Init /\ [][LiveNext]_vars /\ WF_vars(UtteranceEnd)

\* the bound MaxUtter stops the behaviour here: the utterance being spoken
\* is the last one the bound allows and its onend would dispatch another
OutOfUtterances ==
  nextId > MaxUtter /\ synthQueue # <<>> /\ currentChunkRef + 1 < Len(chunksRef)

\* C24: a started session that the user leaves alone and whose utterances
\* all end without error reaches Completed, with the position at the number
\* of chunks and the progress at 100
C24_Completes ==
  handsOff ~>
    \/ mode = "complete" /\ Completed /\ currentChunkRef = Len(chunksRef) /\ progress = Pct100
    \/ OutOfUtterances

\* ------------------------------------------------- FileUpload: extraction

\* the most pages of a document
MaxPages == 2

\* fullText.trim().length < 50: below it the embedded text is taken for absent
OCRThreshold == 50

\* word.confidence < 70: below it an OCR word is replaced
ConfidenceMin == 70

\* the string of n characters c
Rep(c, n) == [i \in 1..n |-> c]

\* the "\n\n" appended after every page
PageBreak == <<"\n", "\n">>

\* Array.prototype.join(sep) of an array of strings
RECURSIVE Join(_, _)
Join(strs, sep) ==
  IF strs = <<>> THEN <<>>
  ELSE IF Len(strs) = 1 THEN strs[1]
  ELSE strs[1] \o sep \o Join(Tail(strs), sep)

\* a page of a PDF: the str fields of its text items and the words that OCR
\* finds on it, each with its confidence
Page(items, words) == [items |-> items, words |-> words]

\* OCR words at, below and above the confidence threshold
WordOk == [text |-> <<"o", "k">>, confidence |-> 70]
WordLo == [text |-> <<"l", "o">>, confidence |-> 69]
WordHi == [text |-> <<"h", "i">>, confidence |-> 95]

\* the pages: an empty one; a scan with one blank text item; a page of two
\* items, 23 characters once joined; pages of one item of 24 characters,
\* on which OCR finds nothing or two words
Pages ==
  { Page(<<>>, <<>>),
    Page(<<Rep(" ", 1)>>, <<WordOk>>),
    Page(<<Rep("a", 11), Rep("b", 11)>>, <<WordLo, WordHi>>),
    Page(<<Rep("a", 24)>>, <<>>),
    Page(<<Rep("a", 24)>>, <<WordLo, WordHi>>) }

\* the documents of up to n pages
Docs(n) == UNION {[1..k -> Pages] : k \in 1..n}

\* what the correction request comes to: fetch rejects or resolves with a
\* response, whose ok flag is set or not, whose json() rejects, resolves to
\* null or to an object, which has a correctedText or not
Response(f, ok, j, has, t) ==
  [fetch |-> f, ok |-> ok, json |-> j, has |-> has, correctedText |-> t]
Responses ==
  { Response("rejects", FALSE, "rejects", FALSE, <<>>),
    Response("resolves", FALSE, "object", FALSE, <<>>),
    Response("resolves", TRUE, "rejects", FALSE, <<>>),
    Response("resolves", TRUE, "null", FALSE, <<>>),
    Response("resolves", TRUE, "object", FALSE, <<>>),
    Response("resolves", TRUE, "object", TRUE, <<>>),
    Response("resolves", TRUE, "object", TRUE, <<" ">>),
    Response("resolves", TRUE, "object", TRUE, <<"h", "i", ".">>) }

\* how an async function settles
Return(v) == [threw |-> FALSE, value |-> v]
Throw == [threw |-> TRUE, value |-> <<>>]

\* the try block of correctTextWithAI
CorrectTry(rawText, r) ==
  IF r.fetch = "rejects" THEN Throw
  ELSE IF ~r.ok THEN Return(rawText)
  ELSE IF r.json # "object" THEN Throw
  ELSE IF ~r.has \/ r.correctedText = <<>> THEN Return(rawText)
  ELSE Return(r.correctedText)

\* a plausible slip of correctTextWithAI: no catch around the request
correctTextWithAINoCatch(rawText, r) == CorrectTry(rawText, r)

\* correctTextWithAI(rawText) when the request comes to r
correctTextWithAI(rawText, r) ==
  LET b == CorrectTry(rawText, r) IN IF b.threw THEN Return(rawText) ELSE b

\* the state that the extraction code reads and writes
XCells ==
  [xpc |-> xpc, variant |-> variant, xDoc |-> xDoc, xPage |-> xPage,
   fullText |-> fullText, isProcessing |-> isProcessing,
   uploadProgress |-> uploadProgress, xToast |-> xToast, delivered |-> delivered,
   usedOcr |-> usedOcr, ocrCalls |-> ocrCalls, aiCalls |-> aiCalls,
   aiResult |-> aiResult]

XCommit(st) ==
  /\ xpc' = st.xpc
  /\ variant' = st.variant
  /\ xDoc' = st.xDoc
  /\ xPage' = st.xPage
  /\ fullText' = st.fullText
  /\ isProcessing' = st.isProcessing
  /\ uploadProgress' = st.uploadProgress
  /\ xToast' = st.xToast
  /\ delivered' = st.delivered
  /\ usedOcr' = st.usedOcr
  /\ ocrCalls' = st.ocrCalls
  /\ aiCalls' = st.aiCalls
  /\ aiResult' = st.aiResult
  /\ UNCHANGED <<cvars, pvars>>

\* setProgress(whole + (i / totalPages) * span)
PageProgress(whole, span, i, totalPages) ==
  Ratio(whole * totalPages + span * i, totalPages)

\* extractTextFromPDF: the catch block, then the finally block
Fails(st) ==
  [st EXCEPT !.xToast = "Error", !.isProcessing = FALSE,
             !.uploadProgress = Ratio(0, 1), !.xpc = "done"]

\* extractTextFromPDF from the test of the empty text on: the throw, or
\* onTextExtracted and the toast, then the finally block
Finishes(st) ==
  IF Trim(st.fullText) = <<>> THEN Fails(st)
  ELSE [st EXCEPT !.delivered = Append(@, Trim(st.fullText)),
                  !.xToast = "Success!", !.isProcessing = FALSE,
                  !.uploadProgress = Ratio(0, 1), !.xpc = "done"]

\* extractTextFromPDF up to its first await
Begins(st, doc) ==
  [st EXCEPT !.xDoc = doc, !.isProcessing = TRUE,
             !.uploadProgress = Ratio(10, 1), !.xpc = "read"]

\* handleFile(file)
handleFile(st, kind, doc) ==
  IF kind = "other" THEN [st EXCEPT !.xToast = "Invalid file"]
  ELSE IF kind = "oversize" THEN [st EXCEPT !.xToast = "File too large"]
  ELSE Begins(st, doc)

\* a plausible slip of handleGoogleDriveLink's catch: isProcessing is not reset
DriveFailsNoReset(st) ==
  [st EXCEPT !.xToast = "Error", !.uploadProgress = Ratio(0, 1), !.xpc = "done"]

\* handleGoogleDriveLink: the catch block
DriveFails(st) ==
  [st EXCEPT !.xToast = "Error", !.isProcessing = FALSE,
             !.uploadProgress = Ratio(0, 1), !.xpc = "done"]

\* handleGoogleDriveLink up to its fetch; doc is the document behind the link
handleGoogleDriveLink(st, link, doc) ==
  IF link = "blank" THEN [st EXCEPT !.xToast = "Invalid link"]
  ELSE LET s1 == [st EXCEPT !.isProcessing = TRUE, !.uploadProgress = Ratio(10, 1)]
       IN  IF link = "noid" THEN DriveFails(s1)
           ELSE [s1 EXCEPT !.uploadProgress = Ratio(30, 1), !.xDoc = doc, !.xpc = "drive"]

\* a plausible slip of the OCR test: the text is not trimmed
NeedsOcrUntrimmed(t) == Len(t) < OCRThreshold

\* fullText.trim().length < 50
NeedsOcr(t) == Len(Trim(t)) < OCRThreshold

\* what the code does after the loop over the embedded text
AfterEmbedded(st) ==
  IF st.variant = "ocr" /\ NeedsOcr(st.fullText)
  THEN [st EXCEPT !.xToast = "Using Advanced OCR", !.fullText = <<>>,
                  !.usedOcr = TRUE, !.xpc = "worker"]
  ELSE Finishes(st)

\* the callback of words.map
ProcessedWord(word) ==
  IF word.confidence < ConfidenceMin THEN <<"[", "?", "]">> ELSE word.text

\* words.map(...).join(" ")
ProcessedWords(words) == Join([i \in 1..Len(words) |-> ProcessedWord(words[i])], <<" ">>)

\* the user drops or selects a file; the input is disabled while isProcessing
SelectFile(v, kind, doc) ==
  /\ xpc = "idle" /\ ~isProcessing
  /\ XCommit(handleFile([XCells EXCEPT !.variant = v], kind, doc))

\* the user submits the Google Drive link; the button is disabled while
\* isProcessing and while the link is blank
SubmitLink(v, link, doc) ==
  /\ xpc = "idle" /\ ~isProcessing
  /\ XCommit(handleGoogleDriveLink([XCells EXCEPT !.variant = v], link, doc))

\* the download settles: response.ok and blob() resolves, or not
DriveResponse(ok) ==
  /\ xpc = "drive"
  /\ XCommit(IF ok THEN Begins([XCells EXCEPT !.uploadProgress = Ratio(50, 1)], xDoc)
             ELSE DriveFails(XCells))

\* file.arrayBuffer() settles
ReadFile(ok) ==
  /\ xpc = "read"
  /\ XCommit(IF ok
             THEN [XCells EXCEPT !.uploadProgress =
                                    IF variant = "ocr" THEN Ratio(20, 1) ELSE Ratio(30, 1),
                                 !.xpc = "load"]
             ELSE Fails(XCells))

\* pdfjsLib.getDocument settles
LoadPdf(ok) ==
  /\ xpc = "load"
  /\ XCommit(IF ok
             THEN [XCells EXCEPT !.uploadProgress =
                                    IF variant = "ocr" THEN Ratio(30, 1) ELSE Ratio(50, 1),
                                 !.fullText = <<>>, !.xPage = 1, !.xpc = "embed"]
             ELSE Fails(XCells))

\* one round of the loop over the embedded text: getPage and getTextContent
\* settle; after the last page the code runs on to its next await
EmbedPage(ok) ==
  /\ xpc = "embed"
  /\ LET s1 == [XCells EXCEPT
                  !.fullText = @ \o Join(xDoc[xPage].items, <<" ">>) \o PageBreak,
                  !.uploadProgress =
                     IF variant = "ocr" THEN PageProgress(30, 15, xPage, Len(xDoc))
                     ELSE PageProgress(50, 50, xPage, Len(xDoc))]
     IN  XCommit(IF ~ok THEN Fails(XCells)
                 ELSE IF xPage < Len(xDoc) THEN [s1 EXCEPT !.xPage = @ + 1]
                 ELSE AfterEmbedded(s1))

\* createWorker and worker.setParameters settle
StartWorker(ok) ==
  /\ xpc = "worker"
  /\ XCommit(IF ok THEN [XCells EXCEPT !.xPage = 1, !.xpc = "ocr"] ELSE Fails(XCells))

\* one round of the OCR loop: the page is rendered and recognised, or the
\* canvas has no 2d context, or getPage, render or recognize rejects
OcrPage(outcome) ==
  /\ xpc = "ocr"
  /\ LET s1 == IF outcome = "nocontext" THEN XCells
               ELSE [XCells EXCEPT
                       !.fullText = @ \o ProcessedWords(xDoc[xPage].words) \o PageBreak,
                       !.ocrCalls = @ + 1]
         s2 == [s1 EXCEPT !.uploadProgress = PageProgress(45, 30, xPage, Len(xDoc))]
     IN  XCommit(IF outcome = "rejects" THEN Fails(XCells)
                 ELSE IF xPage < Len(xDoc) THEN [s2 EXCEPT !.xPage = @ + 1]
                 ELSE [s2 EXCEPT !.xpc = "terminate"])

\* worker.terminate() settles; the code runs on into correctTextWithAI, which
\* sends the request
TerminateWorker(ok) ==
  /\ xpc = "terminate"
  /\ XCommit(IF ok
             THEN [XCells EXCEPT !.uploadProgress = Ratio(75, 1),
                                 !.xToast = "AI Text Correction",
                                 !.aiCalls = @ + 1, !.xpc = "ai"]
             ELSE Fails(XCells))

\* the correction request comes to r and correctTextWithAI settles
AIResponse(r) ==
  /\ xpc = "ai"
  /\ LET res == correctTextWithAI(fullText, r)
         s1 == [XCells EXCEPT !.aiResult = [response |-> r, raw |-> fullText,
                                            threw |-> res.threw, value |-> res.value]]
     IN  XCommit(IF res.threw THEN Fails(s1)
                 ELSE Finishes([s1 EXCEPT !.fullText = res.value,
                                          !.uploadProgress = Ratio(90, 1)]))

\* the two versions of extractTextFromPDF
Variants == {"ocr", "plain"}

ExtractInit ==
  /\ ChunkIdle
  /\ PlayerInit
  /\ ExtractIdle
  /\ text = DocShort
  /\ synthVoices = <<>>

\* what the browser and the libraries do on their own
ExtractLocal ==
  \/ \E ok \in BOOLEAN : DriveResponse(ok)
  \/ \E ok \in BOOLEAN : ReadFile(ok)
  \/ \E ok \in BOOLEAN : LoadPdf(ok)
  \/ \E ok \in BOOLEAN : EmbedPage(ok)
  \/ \E ok \in BOOLEAN : StartWorker(ok)
  \/ \E o \in {"ok", "nocontext", "rejects"} : OcrPage(o)
  \/ \E ok \in BOOLEAN : TerminateWorker(ok)

ExtractNext ==
  \/ \E v \in Variants, k \in {"pdf", "other", "oversize"}, d \in Docs(MaxPages) :
        SelectFile(v, k, d)
  \/ \E v \in Variants, l \in {"noid", "good"}, d \in Docs(MaxPages) :
        SubmitLink(v, l, d)
  \/ ExtractLocal
  \/ \E r \in Responses : AIResponse(r)

SpecExtract == ExtractInit /\ [][ExtractNext]_vars

\* every await of the extraction settles, except that the correction endpoint
\* need not respond
SpecExtractLive == SpecExtract /\ WF_vars(ExtractLocal)

\* ------------------------------------------- properties of the extraction

\* the correction endpoint fails: a rejected request, a non-OK status, a body
\* that does not parse to an object, a correctedText that is missing or empty
EndpointFails(r) ==
  r.fetch = "rejects" \/ ~r.ok \/ r.json # "object" \/ ~r.has \/ r.correctedText = <<>>

\* C22: correctTextWithAI never throws; it returns the raw text whenever the
\* endpoint fails and the endpoint's correctedText otherwise
C22_FallsBack ==
  aiResult # NoResult =>
    /\ ~aiResult.threw
    /\ aiResult.value = IF EndpointFails(aiResult.response) THEN aiResult.raw
                        ELSE aiResult.response.correctedText

\* the body of the response parsed to null: the raw OCR text came back and
\* was delivered
C22_Witness ==
  /\ aiResult # NoResult
  /\ aiResult.response.json = "null"
  /\ aiResult.raw # <<>>
  /\ aiResult.value = aiResult.raw
  /\ delivered = <<Trim(aiResult.raw)>>

\* C23: the correction request is bounded by a timeout: once it is sent the
\* extraction finishes and isProcessing goes back to false, also when the
\* endpoint never responds
C23_TimesOut == (xpc = "ai") ~> (xpc = "done" /\ ~isProcessing)

\* C29: an extraction that has ended, whatever its outcome, has left
\* isProcessing false and the upload progress 0; onTextExtracted was called at
\* most once, after the end only, with a non-empty trimmed text
C29_Ends ==
  /\ xpc \in {"idle", "done"} => (~isProcessing /\ uploadProgress = Ratio(0, 1))
  /\ Len(delivered) <= 1
  /\ delivered # <<>> => xpc = "done"
  /\ \A i \in 1..Len(delivered) : delivered[i] # <<>> /\ Trim(delivered[i]) = delivered[i]

\* "no text found": OCR and the correction ran and left nothing to deliver
C29_Witness ==
  /\ xpc = "done" /\ xToast = "Error"
  /\ usedOcr /\ aiResult # NoResult /\ ~aiResult.threw
  /\ Trim(fullText) = <<>>
  /\ delivered = <<>>
  /\ ~isProcessing /\ uploadProgress = Ratio(0, 1)

\* the embedded text of all pages, as the first loop accumulates it
RECURSIVE EmbeddedText(_)
EmbeddedText(doc) ==
  IF doc = <<>> THEN <<>>
  ELSE EmbeddedText(SubSeq(doc, 1, Len(doc) - 1))
         \o Join(doc[Len(doc)].items, <<" ">>) \o PageBreak

\* the words of a page with every word of confidence below 70 replaced
Masked(words) ==
  [i \in 1..Len(words) |-> IF words[i].confidence >= ConfidenceMin THEN words[i].text
                           ELSE <<"[", "?", "]">>]

\* the OCR pass runs only on a short embedded text; without it the embedded
\* text is long and delivered as it is, with no OCR and no correction; the
\* endpoint is called once, after the last page, and what correctTextWithAI
\* returns is delivered
OcrBranch ==
  variant = "ocr" =>
    /\ usedOcr => Len(Trim(EmbeddedText(xDoc))) < OCRThreshold
    /\ (delivered # <<>> /\ ~usedOcr) =>
         /\ Len(Trim(EmbeddedText(xDoc))) >= OCRThreshold
         /\ delivered = <<Trim(EmbeddedText(xDoc))>>
         /\ ocrCalls = 0 /\ aiCalls = 0
    /\ ocrCalls > 0 => usedOcr
    /\ aiCalls <= 1
    /\ aiCalls = 1 => (usedOcr /\ xPage = Len(xDoc) /\ xpc \in {"ai", "done"})
    /\ (delivered # <<>> /\ usedOcr) =>
         (aiCalls = 1 /\ aiResult # NoResult /\ delivered = <<Trim(aiResult.value)>>)

\* entering the OCR pass discards the embedded text; a recognised page adds
\* its masked words
OcrStep ==
  /\ (usedOcr' /\ ~usedOcr) => fullText' = <<>>
  /\ (xpc = "ocr" /\ ocrCalls' = ocrCalls + 1) =>
       fullText' = fullText \o Join(Masked(xDoc[xPage].words), <<" ">>) \o PageBreak

\* C30: the OCR pass runs exactly when the trimmed embedded text is shorter
\* than 50 characters; then the embedded text is discarded, every OCR word of
\* confidence below 70 becomes "[?]" and the endpoint is called once after the
\* last page; otherwise the trimmed embedded text is delivered unchanged and
\* neither OCR nor the endpoint is invoked
C30_OcrFallback == []OcrBranch /\ [][OcrStep]_vars

\* an embedded text of 49 characters: OCR ran on both pages, a word was
\* replaced, the endpoint answered and its text was delivered
C30_Witness ==
  /\ variant = "ocr" /\ xpc = "done"
  /\ Len(Trim(EmbeddedText(xDoc))) = OCRThreshold - 1
  /\ usedOcr /\ ocrCalls = 2 /\ aiCalls = 1
  /\ aiResult # NoResult
  /\ \E i \in 1..Len(aiResult.raw) : aiResult.raw[i] = "?"
  /\ ~EndpointFails(aiResult.response)
  /\ delivered = <<Trim(aiResult.response.correctedText)>>

====
